---------------------------- MODULE Spec2Model ----------------------------
(***************************************************************************)
(* Daily news digest generator (pco2699/newsfeed).                         *)
(*                                                                         *)
(* The model follows one process run: main() checks the environment,       *)
(* DigestGenerator.generate() fetches the enabled sources through          *)
(* _retry_operation, summarizes through the same wrapper (with the local   *)
(* fallback), renders the "today" document and updates the archive.        *)
(***************************************************************************)
EXTENDS Integers, Sequences, FiniteSets, TLC

(***************************************************************************)
(* Bounds of the model.                                                    *)
(***************************************************************************)
\* Largest number of items one remote listing hands back (the configured
\* popular_count / new_count / story_count / post_count after slicing).
MaxBatch == 2
\* Largest number of fields of one JSON object answer of the generation
\* service that are omitted or null.
MaxOdd == 1

(***************************************************************************)
(* Program constants.                                                      *)
(***************************************************************************)
max_retries == 3
retry_delay == 5
\* source_articles[:10] in _create_fallback_summary
TopLinks == 10

SourceOrder == <<"hatena", "hackernews", "reddit">>
Sources == {"hatena", "hackernews", "reddit"}
Summarization == "AI Summarization"

\* The empty list _retry_operation yields after the last failed attempt.
EmptyList == <<>>

(***************************************************************************)
(* Article records.  What each remote can serve is a small catalogue; a    *)
(* listing is any sequence of at most MaxBatch catalogue entries, so one   *)
(* listing can repeat a url (the Hatena and Hacker News catalogues hold    *)
(* two entries with the same url and different titles).                    *)
(***************************************************************************)
Art(s, u, t, sc) == [source |-> s, url |-> u, title |-> t, score |-> sc]

HatenaCatalog ==
    { Art("hatena", 1, "A", 3), Art("hatena", 1, "B", 1), Art("hatena", 2, "C", 2) }

\* Hacker News items by id; two of them tie on score and link the same page.
HNCatalog ==
    { Art("hackernews", 11, "D", 5), Art("hackernews", 11, "E", 5),
      Art("hackernews", 13, "F", 9) }

RedditCatalog ==
    { Art("reddit", 21, "G", 7), Art("reddit", 22, "H", 4) }

SeqUpTo(S, n) == UNION { [1..k -> S] : k \in 0..n }

Perms(S) == { p \in [1..Cardinality(S) -> S] : \A i, j \in DOMAIN p : i # j => p[i] # p[j] }

(***************************************************************************)
(* HatenaFetcher                                                           *)
(***************************************************************************)
\* fetch_popular / fetch_new: a request or parse error is caught inside the
\* adapter and becomes the empty list.
HatenaListing(net) == IF net.ok THEN net.items ELSE <<>>

RECURSIVE UniqueByUrl(_, _)
UniqueByUrl(entries, seen_urls) ==
    IF entries = <<>> THEN <<>>
    ELSE LET entry == Head(entries) IN
         IF entry.url \in seen_urls
         THEN UniqueByUrl(Tail(entries), seen_urls)
         ELSE <<entry>> \o UniqueByUrl(Tail(entries), seen_urls \cup {entry.url})

\* HatenaFetcher.fetch_all: popular, then new, then first-seen unique by url.
HatenaFetchAll(popular, new) ==
    UniqueByUrl(HatenaListing(popular) \o HatenaListing(new), {})

(***************************************************************************)
(* HackerNewsFetcher                                                       *)
(***************************************************************************)
\* list.sort(key=score, reverse=True): a stable sort, descending by score.
RECURSIVE InsertByScore(_, _)
InsertByScore(sorted, a) ==
    IF sorted = <<>> THEN <<a>>
    ELSE IF Head(sorted).score >= a.score
         THEN <<Head(sorted)>> \o InsertByScore(Tail(sorted), a)
         ELSE <<a>> \o sorted

RECURSIVE SortByScoreDesc(_)
SortByScoreDesc(seq) ==
    IF seq = <<>> THEN <<>>
    ELSE InsertByScore(SortByScoreDesc(SubSeq(seq, 1, Len(seq) - 1)), seq[Len(seq)])

\* Variant: the sort is left out.
FetchStoryDetailsUnsorted(completed) == completed

\* _fetch_story_details: the stories appended in completion order, then sorted.
FetchStoryDetails(completed) == SortByScoreDesc(completed)

\* The pool of one _fetch_story_details call: the items submitted, in
\* submission order; what _fetch_single_story gives for each ("story", "other"
\* for an item that is no story, "failed" for a request error: the last two
\* return None); the futures not yet completed; the stories appended so far.
IdlePool ==
    [phase |-> "idle", ids |-> <<>>, outcome |-> <<>>, pending |-> {},
     stories |-> <<>>, result |-> <<>>]

Submitted(ids, outcome) ==
    [phase |-> "running", ids |-> ids, outcome |-> outcome, pending |-> DOMAIN ids,
     stories |-> <<>>, result |-> <<>>]

\* as_completed yields future i: story = future.result(); if story: append.
Completed(p, i) ==
    [p EXCEPT !.pending = @ \ {i},
              !.stories = IF p.outcome[i] = "story" THEN Append(@, p.ids[i]) ELSE @]

\* The executor is left; stories.sort(...); return stories.
Returning(p) ==
    [p EXCEPT !.phase = "returned", !.result = FetchStoryDetails(p.stories)]

\* fetch_stories: a failure of the top-stories request is caught and becomes
\* the empty list; otherwise the details of the listed ids.
HNFetchStories(net) == IF net.ok THEN FetchStoryDetails(net.items) ELSE <<>>

(***************************************************************************)
(* RedditFetcher                                                           *)
(***************************************************************************)
\* fetch_posts: no client, or an error while listing, gives the empty list.
RedditFetchPosts(net) == IF net.ok THEN net.items ELSE <<>>

(***************************************************************************)
(* What one network exchange of an adapter can give: an error, or items.   *)
(***************************************************************************)
NetError == [ok |-> FALSE, items |-> <<>>]
NetOk(items) == [ok |-> TRUE, items |-> items]

Listings(catalog) == { NetOk(l) : l \in SeqUpTo(catalog, MaxBatch) } \cup {NetError}

\* Stories whose item fetch succeeded, in any completion order.
HNListings ==
    { NetOk(p) : p \in UNION { Perms(S) :
                 S \in { T \in SUBSET HNCatalog : Cardinality(T) <= MaxBatch } } }
    \cup {NetError}

(***************************************************************************)
(* AISummarizer: values of a summary dictionary.  Every value has the same *)
(* record shape; tag says which JSON type it is.                           *)
(***************************************************************************)
JNull == [tag |-> "null", s |-> "", n |-> 0, l |-> <<>>]
JStr(x) == [tag |-> "str", s |-> x, n |-> 0, l |-> <<>>]
JInt(x) == [tag |-> "int", s |-> "", n |-> x, l |-> <<>>]
JList(x) == [tag |-> "list", s |-> "", n |-> 0, l |-> x]

Fields == {"title", "overall_summary", "source_summaries", "key_topics", "total_articles"}
RequiredFields == {"overall_summary", "source_summaries"}

DefaultTitle == "Tech news digest"

SourceIcon(source) ==
    CASE source = "hatena" -> "bookmark"
      [] source = "hackernews" -> "diamond"
      [] source = "reddit" -> "robot"
      [] OTHER -> "newspaper"

\* What a well-formed answer of the service carries in each field.
AIValue(f) ==
    CASE f = "title" -> JStr("AI title")
      [] f = "overall_summary" -> JStr("AI overall")
      [] f = "source_summaries" ->
            JList(<< [source |-> "hatena", icon |-> "bookmark",
                     summary |-> [count |-> 0, links |-> <<>>, text |-> "AI text"],
                     article_count |-> 1] >>)
      [] f = "key_topics" -> JList(<< [topic |-> "AI topic", icon |-> "star"] >>)
      [] f = "total_articles" -> JInt(42)

\* The dictionary json.loads gives for an object whose fields have the
\* statuses st: an absent field is no key, a null field is a key with None.
DictOf(st) ==
    [f \in {g \in Fields : st[g] # "absent"} |->
        IF st[f] = "null" THEN JNull ELSE AIValue(f)]

RECURSIVE SourcesInOrder(_, _)
SourcesInOrder(articles, seen) ==
    IF articles = <<>> THEN <<>>
    ELSE IF Head(articles).source \in seen
         THEN SourcesInOrder(Tail(articles), seen)
         ELSE <<Head(articles).source>>
              \o SourcesInOrder(Tail(articles), seen \cup {Head(articles).source})

\* Variant: the slice is forgotten.
FirstNUncut(seq, n) == seq

\* seq[:n]
FirstN(seq, n) == SubSeq(seq, 1, IF Len(seq) < n THEN Len(seq) ELSE n)

FallbackGroup(source, source_articles) ==
    [source |-> source,
     icon |-> SourceIcon(source),
     summary |-> [count |-> Len(source_articles),
                  links |-> [i \in 1..Len(FirstN(source_articles, TopLinks)) |->
                                <<source_articles[i].title, source_articles[i].url>>],
                  text |-> "fallback"],
     article_count |-> Len(source_articles)]

\* Variant: the number of groups is reported instead of the number of articles.
FallbackTotalGroups(articles) == Len(SourcesInOrder(articles, {}))

FallbackTotal(articles) == Len(articles)

\* AISummarizer._create_fallback_summary
CreateFallbackSummary(articles) ==
    LET sorted_articles == SortByScoreDesc(articles)
        order == SourcesInOrder(sorted_articles, {})
        by_source(s) == SelectSeq(sorted_articles, LAMBDA a : a.source = s)
    IN  [f \in Fields |->
           CASE f = "title" -> JStr(DefaultTitle)
             [] f = "overall_summary" ->
                   [tag |-> "str", s |-> "fallback overall", n |-> Len(articles), l |-> <<>>]
             [] f = "source_summaries" ->
                   JList([i \in 1..Len(order) |-> FallbackGroup(order[i], by_source(order[i]))])
             [] f = "key_topics" ->
                   JList(<< [topic |-> "technology", icon |-> "computer"],
                           [topic |-> "news", icon |-> "newspaper"] >>)
             [] f = "total_articles" -> JInt(FallbackTotal(articles))]

\* The defaults _parse_summary_response fills in for keys that are missing.
FillDefault(result, f, articles) ==
    IF f \in DOMAIN result THEN result[f]
    ELSE CASE f = "title" -> JStr(DefaultTitle)
           [] f = "key_topics" -> JList(<<>>)
           [] f = "total_articles" -> JInt(Len(articles))
           [] OTHER -> JNull

\* A parse either returns a value or lets an exception other than
\* JSONDecodeError escape; the value is a dictionary or (for a JSON string
\* or array that passed the membership tests) not a dictionary.
Returned(value) == [raised |-> FALSE, isdict |-> TRUE, value |-> value]
ReturnedNonDict == [raised |-> FALSE, isdict |-> FALSE, value |-> <<>>]
Raised == [raised |-> TRUE, isdict |-> FALSE, value |-> <<>>]

\* What the parse does with text that does not decode: the JSONDecodeError
\* handler.
OnDecodeError(articles) == Returned(CreateFallbackSummary(articles))

\* AISummarizer._parse_summary_response
ParseSummaryResponse(resp, original_articles) ==
    CASE resp.kind = "not_json" -> OnDecodeError(original_articles)
      [] resp.kind = "scalar" -> Raised   \* 'overall_summary' not in 5: TypeError
      [] resp.kind = "container" ->
            LET has == {f \in Fields : resp.st[f] = "value"} IN
            IF ~ (RequiredFields \subseteq has)
            THEN Returned(CreateFallbackSummary(original_articles))
            ELSE IF has # Fields
                 THEN Raised              \* result['title'] = ...: TypeError
                 ELSE ReturnedNonDict
      [] resp.kind = "object" ->
            LET result == DictOf(resp.st) IN
            IF ~ (RequiredFields \subseteq DOMAIN result)
            THEN Returned(CreateFallbackSummary(original_articles))
            ELSE Returned([f \in Fields |-> FillDefault(result, f, original_articles)])

\* Variant: the except clause hands back an unpopulated dictionary.
OnSummarizeErrorUnpopulated(articles) == [f \in Fields |-> JNull]

\* What summarize_articles does when the call or the parse raised: its
\* except clause.
OnSummarizeError(articles) == CreateFallbackSummary(articles)

\* AISummarizer.summarize_articles, given what the remote call did.
SummarizeArticles(api, articles) ==
    IF api.kind = "transport_error" THEN OnSummarizeError(articles)
    ELSE LET parsed == ParseSummaryResponse(api, articles) IN
         IF parsed.raised THEN OnSummarizeError(articles)
         ELSE IF ~ parsed.isdict THEN OnSummarizeError(articles)  \* result.get: AttributeError
         ELSE parsed.value

(***************************************************************************)
(* What the generation service can do on one call.                         *)
(***************************************************************************)
AllValue == [f \in Fields |-> "value"]

FieldStatuses ==
    { st \in [Fields -> {"value", "null", "absent"}] :
        Cardinality({f \in Fields : st[f] # "value"}) <= MaxOdd }

ContainerStatuses ==
    { st \in [Fields -> {"value", "absent"}] :
        Cardinality({f \in Fields : st[f] # "value"}) <= MaxOdd }

ApiOutcomes ==
    { [kind |-> k, st |-> AllValue] : k \in {"transport_error", "not_json", "scalar"} }
    \cup { [kind |-> "object", st |-> st] : st \in FieldStatuses }
    \cup { [kind |-> "container", st |-> st] : st \in ContainerStatuses }

(***************************************************************************)
(* HTMLGenerator and ArchiveManager                                        *)
(***************************************************************************)
\* ArchiveManager.__init__ default keep_days
KeepDays == 90

\* A rendered document: the digest date and the summary it was built from.
\* Days are counted from the day the first run starts, which is day 0.
Doc(day, summary_data) == [date |-> day, summary |-> summary_data]
OldDoc(day) == Doc(day, [f \in Fields |-> AIValue(f)])

\* _build_html: len(overall_summary) and the loops over source_summaries
\* raise TypeError on None; title, key_topics and total_articles are only
\* interpolated or tested for emptiness.
CanRender(summary_data) ==
    /\ summary_data["overall_summary"].tag # "null"
    /\ summary_data["source_summaries"].tag # "null"

InitialArchive == [d \in {0 - 200, 0 - 90, 0 - 10} |-> OldDoc(d)]

\* Variant: an entry that exists is left as it is.
SaveKeepExisting(files, html_content, day) ==
    [d \in DOMAIN files \cup {day} |-> IF d \in DOMAIN files THEN files[d] ELSE html_content]

\* save_to_archive: the file named after the date is (over)written.
SaveToArchiveFile(files, html_content, day) ==
    [d \in DOMAIN files \cup {day} |-> IF d = day THEN html_content ELSE files[d]]

\* Variant: the cutoff is taken at midnight, without the time of day.
ExpiredWholeDays(day, today, late, keep_days) == day + keep_days < today

\* Variant: file_date <= cutoff_date.
ExpiredInclusive(day, today, late, keep_days) == day + keep_days <= today

\* file_date < cutoff_date, cutoff_date = now - keep_days; file_date is the
\* midnight of the file's day and now is later than midnight iff late.
Expired(day, today, late, keep_days) ==
    \/ day + keep_days < today
    \/ day + keep_days = today /\ late

\* datetime.now() read again on the same calendar day: the time of day does
\* not go back.
LaterToday(clock) == IF clock.late THEN {TRUE} ELSE BOOLEAN

\* Other *.html files the archive directory can hold: one whose name does
\* not start with '20', one that does and is no date.
StrayNames == {"notes.html", "2024-13-45.html"}

\* filename.startswith('20')
StartsWith20(filename) == filename = "2024-13-45.html"

\* Variant: the ValueError of strptime is not caught.
ScanStrayUncaught(filename) ==
    IF ~ StartsWith20(filename) THEN "continue" ELSE "raised"

\* What the loops of cleanup_old_archives and get_archive_list do with a
\* file whose name is no date: continue, or strptime raises ValueError,
\* which the except clause logs.
ScanStray(filename) ==
    IF ~ StartsWith20(filename) THEN "continue" ELSE "logged"

ScanRaises(names) == \E n \in names : ScanStray(n) = "raised"

RECURSIVE AscendingDays(_)
AscendingDays(S) ==
    IF S = {} THEN <<>>
    ELSE LET m == CHOOSE x \in S : \A y \in S : x <= y
         IN  <<m>> \o AscendingDays(S \ {m})

RECURSIVE RemovedWhileScanning(_, _, _, _, _)
RemovedWhileScanning(days, i, today, late, keep_days) ==
    IF i > Len(days) THEN {}
    ELSE IF Expired(days[i], today, late, keep_days)
         THEN {days[i]} \cup RemovedWhileScanning(days, i + 2, today, late, keep_days)
         ELSE RemovedWhileScanning(days, i + 1, today, late, keep_days)

\* Variant: the file list shrinks under the loop, so the file that follows a
\* removed one is not looked at.
CleanupSkipping(files, today, late, keep_days) ==
    LET gone == RemovedWhileScanning(AscendingDays(DOMAIN files), 1, today, late, keep_days)
    IN  [d \in DOMAIN files \ gone |-> files[d]]

\* cleanup_old_archives
CleanupOldArchives(files, today, late, keep_days) ==
    [d \in {e \in DOMAIN files : ~ Expired(e, today, late, keep_days)} |-> files[d]]

RECURSIVE SortedDesc(_)
SortedDesc(S) ==
    IF S = {} THEN <<>>
    ELSE LET m == CHOOSE x \in S : \A y \in S : y <= x
         IN  <<m>> \o SortedDesc(S \ {m})

\* Variant: the sort is not reversed.
GetArchiveListOldestFirst(files) == AscendingDays(DOMAIN files)

\* get_archive_list: the archive dates, most recent first.
GetArchiveList(files) == SortedDesc(DOMAIN files)

\* Calendar months, scaled down: a month has MonthLength days.
MonthLength == 2

\* archive['date'].strftime('%Y年%m月')
MonthKey(day) == day \div MonthLength

\* _build_archive_html: archives_by_month[month_key].append(archive), a new
\* key going to the end of the dictionary.
AddToMonth(sections, day) ==
    IF \E i \in DOMAIN sections : sections[i].month = MonthKey(day)
    THEN [i \in DOMAIN sections |->
            IF sections[i].month = MonthKey(day)
            THEN [sections[i] EXCEPT !.days = Append(@, day)]
            ELSE sections[i]]
    ELSE Append(sections, [month |-> MonthKey(day), days |-> <<day>>])

\* _build_archive_html: the month sections of the index page, in page order.
RECURSIVE BuildArchiveHtml(_)
BuildArchiveHtml(archives) ==
    IF archives = <<>> THEN <<>>
    ELSE AddToMonth(BuildArchiveHtml(SubSeq(archives, 1, Len(archives) - 1)),
                    archives[Len(archives)])

(***************************************************************************)
(* DigestGenerator._retry_operation: the frame of one call.                *)
(***************************************************************************)
IdleFrame ==
    [phase |-> "idle", op |-> "none", attempt |-> 0, calls |-> 0, fails |-> 0,
     slept |-> 0, sleeps |-> 0, swallowed |-> FALSE, ok |-> FALSE,
     opreturn |-> <<>>, result |-> <<>>]

\* Entry: the loop starts at attempt 1.
NewFrame(operation_name) == [IdleFrame EXCEPT !.phase = "running", !.op = operation_name,
                                              !.attempt = 1]

\* Variant: the loop gives up one attempt early.
MoreAttemptsOneShort(attempt) == attempt < max_retries - 1

\* if attempt < self.max_retries
MoreAttempts(attempt) == attempt < max_retries

\* Variant: the exponent is the attempt number itself.
DelayFromAttempt(attempt) == retry_delay * 2 ^ attempt

\* delay = self.retry_delay * (2 ** (attempt - 1))
Delay(attempt) == retry_delay * 2 ^ (attempt - 1)

\* Variant: an empty result is taken for a failure and retried.
OnSuccessRetryEmpty(frame, value, swallowed) ==
    IF value = <<>> /\ MoreAttempts(frame.attempt)
    THEN [frame EXCEPT !.calls = @ + 1, !.ok = TRUE, !.swallowed = swallowed,
                       !.opreturn = value, !.slept = @ + Delay(frame.attempt),
                       !.sleeps = @ + 1, !.attempt = @ + 1]
    ELSE [frame EXCEPT !.phase = "returned", !.calls = @ + 1, !.ok = TRUE,
                       !.swallowed = swallowed, !.opreturn = value, !.result = value]

\* try: result = operation(); return result
OnSuccess(frame, value, swallowed) ==
    [frame EXCEPT !.phase = "returned", !.calls = @ + 1, !.ok = TRUE,
                  !.swallowed = swallowed, !.opreturn = value, !.result = value]

\* Variant: the backoff sleep also follows the last attempt.
OnFailureSleepLast(frame) ==
    IF MoreAttempts(frame.attempt)
    THEN [frame EXCEPT !.calls = @ + 1, !.fails = @ + 1,
                       !.slept = @ + Delay(frame.attempt), !.sleeps = @ + 1,
                       !.attempt = @ + 1]
    ELSE [frame EXCEPT !.phase = "returned", !.calls = @ + 1, !.fails = @ + 1,
                       !.slept = @ + Delay(frame.attempt), !.sleeps = @ + 1,
                       !.result = EmptyList]

\* except Exception: sleep and go round again, or fall out of the loop and
\* return [].
OnFailure(frame) ==
    IF MoreAttempts(frame.attempt)
    THEN [frame EXCEPT !.calls = @ + 1, !.fails = @ + 1,
                       !.slept = @ + Delay(frame.attempt), !.sleeps = @ + 1,
                       !.attempt = @ + 1]
    ELSE [frame EXCEPT !.phase = "returned", !.calls = @ + 1, !.fails = @ + 1,
                       !.result = EmptyList]

\* One pass through the loop body, given what operation() did.
Attempt(frame, out) ==
    IF out.raised THEN OnFailure(frame) ELSE OnSuccess(frame, out.value, out.swallowed)

OpRaises == [raised |-> TRUE, value |-> <<>>, swallowed |-> FALSE]
OpReturns(value, swallowed) == [raised |-> FALSE, value |-> value, swallowed |-> swallowed]

\* _fetch_hatena / _fetch_hackernews / _fetch_reddit: the adapter is built
\* and fetch_all() called.  An error that escapes (a missing configuration
\* key, the adapter's constructor) raises; an error during a request is
\* swallowed by the adapter.
FetchOutcomes(s) ==
    {OpRaises} \cup
    CASE s = "hatena" ->
            { OpReturns(HatenaFetchAll(p, n), ~ p.ok \/ ~ n.ok) :
                p \in Listings(HatenaCatalog), n \in Listings(HatenaCatalog) }
      [] s = "hackernews" ->
            { OpReturns(HNFetchStories(net), ~ net.ok) : net \in HNListings }
      [] s = "reddit" ->
            { OpReturns(RedditFetchPosts(net), ~ net.ok) : net \in Listings(RedditCatalog) }

\* AISummarizer.__init__: ValueError without the credential; otherwise the
\* client is constructed, which succeeds or raises.
SummarizerInit(api_key, client_ok) == api_key /\ client_ok

\* Variant: the new articles are put in front of the combined list.
ExtendInFront(list, articles) == articles \o list

\* all_articles.extend(articles)
Extend(list, articles) == list \o articles

\* Variant: a source that failed every attempt ends the fetch stage.
NextSourceStopOnFailure(i, frame) == IF frame.ok THEN i + 1 ELSE Len(SourceOrder) + 1

\* Variant: the block of a source that failed every attempt is entered again.
NextSourceRetryFailed(i, frame) == IF frame.ok THEN i + 1 ELSE i

\* After a source's block, whatever its wrapper returned, control falls
\* through to the next source's block.
NextSource(i, frame) == i + 1

\* Variant: the emptiness test never fires.
NotArticlesNever(articles) == FALSE

\* if not articles
NotArticles(articles) == articles = <<>>

(***************************************************************************)
(* State                                                                   *)
(***************************************************************************)
VARIABLES
    env,            \* the process environment: credentials, configuration file
    config,         \* the loaded configuration
    now,            \* the wall clock as last read: calendar day, past midnight
    date,           \* generate(): the run date
    strays,         \* the archive directory: names of the other .html files
    pool,           \* _fetch_story_details: the worker pool of one call
    started,        \* generate(): the clock as read for the run date
    pc,             \* where main() / generate() is
    src,            \* fetch stage: index in SourceOrder of the source at hand
    retry,          \* the frame of the _retry_operation call in progress
    all_articles,   \* fetch_articles_with_retry: the combined list
    got,            \* per source, what its _retry_operation call returned
    exhausted,      \* the sources whose every attempt raised
    invoked,        \* the operations called at least once in this run
    summary,        \* summary_data, <<>> before the summarization step
    api_log,        \* what each remote generation call of this run did
    error,          \* the stage whose exception reached generate()'s handler
    today_doc,      \* index.html: <<>> or <<document>>
    archive,        \* the archive directory: day -> document
    index_doc,      \* archive.html: <<>> or <<list of days>>
    retval,         \* what generate() returned
    exit_code       \* the process exit code, -1 while running

vars == << env, config, now, date, strays, pool, started, pc, src, retry, all_articles, got, exhausted, invoked,
           summary, api_log, error, today_doc, archive, index_doc, retval,
           exit_code >>

InitialToday == << OldDoc(0 - 1) >>
InitialIndex == << GetArchiveList(InitialArchive) >>

\* Configurations with the shipped archive settings and any choice of
\* enabled sources.
Configs ==
    { [enabled |-> e, keep_days |-> KeepDays, generate_index |-> TRUE] :
      e \in [Sources -> BOOLEAN] }

\* The process starts in environment e with configuration file content c.
ProcessStart(e, c) ==
    /\ env = e
    /\ config = c
    /\ now = [day |-> 0, late |-> FALSE]
    /\ date = 0
    /\ strays = StrayNames
    /\ pool = IdlePool
    /\ started = [day |-> 0, late |-> FALSE]
    /\ pc = "main"
    /\ src = 1
    /\ retry = IdleFrame
    /\ all_articles = <<>>
    /\ got = [s \in Sources |-> <<>>]
    /\ exhausted = {}
    /\ invoked = {}
    /\ summary = <<>>
    /\ api_log = <<>>
    /\ error = "none"
    /\ today_doc = InitialToday
    /\ archive = InitialArchive
    /\ index_doc = InitialIndex
    /\ retval = "none"
    /\ exit_code = 0 - 1

\* All four Reddit variables are set.
Init ==
    \E e \in [api_key : BOOLEAN, config_ok : BOOLEAN, reddit_creds : {TRUE}],
       c \in Configs : ProcessStart(e, c)

\* Any of the Reddit variables may be missing.
InitCreds ==
    \E e \in [api_key : BOOLEAN, config_ok : BOOLEAN, reddit_creds : BOOLEAN],
       c \in Configs : ProcessStart(e, c)

(***************************************************************************)
(* main()                                                                  *)
(***************************************************************************)
StartupOkConfigOnly(e) == e.config_ok

\* main() reaches generator.generate(): ANTHROPIC_API_KEY is set and
\* DigestGenerator() loaded the configuration.  The Reddit variables are
\* only looked at to log a warning.
StartupOk(e) == e.api_key /\ e.config_ok

\* The credential is missing (sys.exit(1)), or DigestGenerator() raises
\* while loading the configuration (except Exception: sys.exit(1)).
MainAbort ==
    /\ pc = "main"
    /\ ~ StartupOk(env)
    /\ pc' = "exited"
    /\ exit_code' = 1
    /\ UNCHANGED << env, config, strays, pool, started, date, now, src, retry, all_articles, got, exhausted, invoked,
                    summary, api_log, error, today_doc, archive,
                    index_doc, retval >>

\* generator.generate() is entered.
MainGenerate ==
    /\ pc = "main"
    /\ StartupOk(env)
    /\ pc' = "fetch"
    /\ date' = now.day
    /\ started' = now
    /\ UNCHANGED << env, config, strays, pool, now, src, retry, all_articles, got, exhausted, invoked,
                    summary, api_log, error, today_doc, archive,
                    index_doc, retval, exit_code >>

ExitCodeZero(success) == 0

\* 0 if success else 1
ExitCode(success) == IF success THEN 0 ELSE 1

\* sys.exit(0 if success else 1)
MainExit ==
    /\ pc = "done"
    /\ pc' = "exited"
    /\ exit_code' = ExitCode(retval = "True")
    /\ UNCHANGED << env, config, strays, pool, started, date, now, src, retry, all_articles, got, exhausted, invoked,
                    summary, api_log, error, today_doc, archive,
                    index_doc, retval >>

\* except KeyboardInterrupt: sys.exit(1).  No handler between main() and the
\* interrupted statement catches it (they catch Exception only).
Interrupt ==
    /\ pc # "exited"
    /\ pc' = "exited"
    /\ error' = "interrupt"
    /\ exit_code' = 1
    /\ UNCHANGED << env, config, strays, pool, started, date, now, src, retry, all_articles, got, exhausted,
                    invoked, summary, api_log, today_doc, archive, index_doc, retval >>

(***************************************************************************)
(* fetch_articles_with_retry                                               *)
(***************************************************************************)
\* if self.config['sources'][...]['enabled'] is false: the block is skipped.
FetchSkip ==
    /\ pc = "fetch" /\ retry.phase = "idle" /\ src <= Len(SourceOrder)
    /\ ~ config.enabled[SourceOrder[src]]
    /\ src' = src + 1
    /\ UNCHANGED << env, config, strays, pool, started, date, now, pc, retry, all_articles, got, exhausted, invoked,
                    summary, api_log, error, today_doc, archive,
                    index_doc, retval, exit_code >>

\* self._retry_operation(self._fetch_..., name) is entered.
FetchCall ==
    /\ pc = "fetch" /\ retry.phase = "idle" /\ src <= Len(SourceOrder)
    /\ config.enabled[SourceOrder[src]]
    /\ retry' = NewFrame(SourceOrder[src])
    /\ UNCHANGED << env, config, strays, pool, started, date, now, pc, src, all_articles, got, exhausted, invoked,
                    summary, api_log, error, today_doc, archive,
                    index_doc, retval, exit_code >>

\* One attempt of the wrapper on a source's adapter.
FetchAttempt ==
    /\ pc = "fetch" /\ retry.phase = "running"
    /\ \E out \in FetchOutcomes(retry.op) : retry' = Attempt(retry, out)
    /\ invoked' = invoked \cup {retry.op}
    /\ UNCHANGED << env, config, strays, pool, started, date, now, pc, src, all_articles, got, exhausted,
                    summary, api_log, error, today_doc, archive,
                    index_doc, retval, exit_code >>

\* The wrapper has returned: all_articles.extend(articles).
FetchReturn ==
    /\ pc = "fetch" /\ retry.phase = "returned"
    /\ all_articles' = Extend(all_articles, retry.result)
    /\ got' = [got EXCEPT ![retry.op] = retry.result]
    /\ exhausted' = IF retry.ok THEN exhausted ELSE exhausted \cup {retry.op}
    /\ src' = NextSource(src, retry)
    /\ retry' = IdleFrame
    /\ UNCHANGED << env, config, strays, pool, started, date, now, pc, invoked, summary, api_log, error,
                    today_doc, archive, index_doc, retval, exit_code >>

(***************************************************************************)
(* generate()                                                              *)
(***************************************************************************)
\* Variant: the archive is updated before the document is rendered.
StageAfterArchiveFirst(stage) ==
    CASE stage = "summarize" -> "save"
      [] stage = "save" -> "cleanup"
      [] stage = "cleanup" -> "index"
      [] stage = "index" -> "render"
      [] stage = "render" -> "done"

\* The statement that follows a stage of generate() / update_archives().
StageAfter(stage) ==
    CASE stage = "summarize" -> "render"
      [] stage = "render" -> "save"
      [] stage = "save" -> "cleanup"
      [] stage = "cleanup" -> "index"
      [] stage = "index" -> "done"

\* if not articles: return False
NoArticles ==
    /\ pc = "fetch" /\ retry.phase = "idle" /\ src > Len(SourceOrder)
    /\ NotArticles(all_articles)
    /\ pc' = "done"
    /\ retval' = "False"
    /\ UNCHANGED << env, config, strays, pool, started, date, now, src, retry, all_articles, got, exhausted, invoked,
                    summary, api_log, error, today_doc, archive,
                    index_doc, exit_code >>

\* summarize_with_ai: self._retry_operation(_summarize, "AI Summarization")
SummarizeCall ==
    /\ pc = "fetch" /\ retry.phase = "idle" /\ src > Len(SourceOrder)
    /\ ~ NotArticles(all_articles)
    /\ pc' = "summarize"
    /\ retry' = NewFrame(Summarization)
    /\ UNCHANGED << env, config, strays, pool, started, date, now, src, all_articles, got, exhausted, invoked,
                    summary, api_log, error, today_doc, archive,
                    index_doc, retval, exit_code >>

\* One attempt of the wrapper on _summarize: the summarizer is constructed
\* (which can raise) and summarize_articles makes the remote call.
SummarizeAttempt ==
    /\ pc = "summarize" /\ retry.phase = "running"
    /\ invoked' = invoked \cup {retry.op}
    /\ \E client_ok \in BOOLEAN :
         IF SummarizerInit(env.api_key, client_ok)
         THEN \E api \in ApiOutcomes :
                /\ retry' = Attempt(retry, OpReturns(SummarizeArticles(api, all_articles),
                                                     api.kind = "transport_error"))
                /\ api_log' = Append(api_log, api)
         ELSE /\ retry' = Attempt(retry, OpRaises)
              /\ UNCHANGED api_log
    /\ UNCHANGED << env, config, strays, pool, started, date, now, pc, src, all_articles, got, exhausted,
                    summary, error, today_doc, archive, index_doc, retval, exit_code >>

\* if not result: the fallback branch is taken; otherwise result is returned.
SummarizeReturn ==
    /\ pc = "summarize" /\ retry.phase = "returned"
    /\ IF retry.result = <<>>
       THEN pc' = "fallback" /\ UNCHANGED summary
       ELSE pc' = StageAfter("summarize") /\ summary' = retry.result
    /\ retry' = IdleFrame
    /\ UNCHANGED << env, config, strays, pool, started, date, now, src, all_articles, got, exhausted, invoked,
                    api_log, error, today_doc, archive, index_doc,
                    retval, exit_code >>

\* summarizer = AISummarizer(); result = summarizer._create_fallback_summary(articles)
\* An exception of the constructor leaves summarize_with_ai and reaches
\* generate()'s handler.
FallbackSummary ==
    /\ pc = "fallback"
    /\ \E client_ok \in BOOLEAN :
         IF SummarizerInit(env.api_key, client_ok)
         THEN /\ summary' = CreateFallbackSummary(all_articles)
              /\ pc' = StageAfter("summarize")
              /\ UNCHANGED << error, retval >>
         ELSE /\ error' = "summarize"
              /\ pc' = "done"
              /\ retval' = "False"
              /\ UNCHANGED summary
    /\ UNCHANGED << env, config, strays, pool, started, date, now, src, retry, all_articles, got, exhausted, invoked,
                    api_log, today_doc, archive, index_doc, exit_code >>

\* generate_html: the document is built and written to index.html, then read
\* back.  Building raises on a summary it cannot render; writing can fail.
GenerateHtml ==
    /\ pc = "render"
    /\ \E io_ok \in BOOLEAN :
         IF CanRender(summary) /\ io_ok
         THEN /\ today_doc' = << Doc(date, summary) >>
              /\ pc' = StageAfter("render")
              /\ UNCHANGED << error, retval >>
         ELSE /\ error' = IF CanRender(summary) THEN "write" ELSE "render"
              /\ pc' = "done"
              /\ retval' = "False"
              /\ UNCHANGED today_doc
    /\ UNCHANGED << env, config, strays, pool, started, date, now, src, retry, all_articles, got, exhausted, invoked,
                    summary, api_log, archive, index_doc, exit_code >>

\* update_archives: manager.save_to_archive(html_content, date)
SaveToArchive ==
    /\ pc = "save"
    /\ \E io_ok \in BOOLEAN :
         IF io_ok
         THEN /\ archive' = SaveToArchiveFile(archive, today_doc[1], date)
              /\ pc' = StageAfter("save")
              /\ UNCHANGED << error, retval >>
         ELSE /\ error' = "archive"
              /\ pc' = "done"
              /\ retval' = "False"
              /\ UNCHANGED archive
    /\ UNCHANGED << env, config, strays, pool, started, date, now, src, retry, all_articles, got, exhausted, invoked,
                    summary, api_log, today_doc, index_doc, exit_code >>

\* update_archives: manager.cleanup_old_archives()
Cleanup ==
    /\ pc = "cleanup"
    /\ \E late \in LaterToday(now) :
         /\ now' = [now EXCEPT !.late = late]
         /\ IF ScanRaises(strays)
            THEN /\ archive' \in {archive,
                                  CleanupOldArchives(archive, now.day, late, config.keep_days)}
                 /\ error' = "archive"
                 /\ pc' = "done"
                 /\ retval' = "False"
            ELSE /\ archive' = CleanupOldArchives(archive, now.day, late, config.keep_days)
                 /\ pc' = StageAfter("cleanup")
                 /\ UNCHANGED << error, retval >>
    /\ UNCHANGED << env, config, strays, pool, started, date, src, retry, all_articles, got, exhausted, invoked,
                    summary, api_log, today_doc, index_doc, exit_code >>

\* update_archives: manager.generate_archive_index() if configured; then
\* generate() returns True.
GenerateIndex ==
    /\ pc = "index"
    /\ \E io_ok \in (IF config.generate_index THEN BOOLEAN ELSE {TRUE}) :
         IF io_ok /\ ~ (config.generate_index /\ ScanRaises(strays))
         THEN /\ index_doc' = IF config.generate_index
                              THEN << GetArchiveList(archive) >> ELSE index_doc
              /\ retval' = "True"
              /\ UNCHANGED error
         ELSE /\ error' = "archive"
              /\ retval' = "False"
              /\ UNCHANGED index_doc
    /\ pc' = (IF retval' = "True" THEN StageAfter("index") ELSE "done")
    /\ UNCHANGED << env, config, strays, pool, started, date, now, src, retry, all_articles, got, exhausted, invoked,
                    summary, api_log, today_doc, archive, exit_code >>

Next ==
    \/ MainAbort \/ MainGenerate \/ MainExit
    \/ FetchSkip \/ FetchCall \/ FetchAttempt \/ FetchReturn
    \/ NoArticles \/ SummarizeCall \/ SummarizeAttempt \/ SummarizeReturn
    \/ FallbackSummary \/ GenerateHtml \/ SaveToArchive \/ Cleanup \/ GenerateIndex

Spec == Init /\ [][Next]_vars

\* The run as the single thread it is: a statement that is ready is executed,
\* and every adapter call, generation call and file operation it makes
\* returns or raises.
SpecFair == Init /\ [][Next]_vars /\ WF_vars(Next)

\* The run when Reddit credentials may be missing.
SpecCreds == InitCreds /\ [][Next]_vars

\* The run when the user may interrupt it at any point.
NextInterruptible == Next \/ Interrupt
SpecInterrupt == Init /\ [][NextInterruptible]_vars

(***************************************************************************)
(* Successive runs over one archive directory, with any retention setting. *)
(* Each run is taken up where summarize_with_ai has returned; the clock    *)
(* can pass midnight at any point, during a run or between two runs.       *)
(***************************************************************************)
MaxDay == 3
MaxKeep == 2

ArchiveConfigs ==
    { [enabled |-> [s \in Sources |-> s = "hatena"], keep_days |-> k, generate_index |-> g] :
      k \in 0..MaxKeep, g \in BOOLEAN }

SampleArticles == << Art("hatena", 1, "A", 3) >>

\* What summarize_with_ai can have returned for SampleArticles.
RunSummaries ==
    { SummarizeArticles(api, SampleArticles) :
      api \in { [kind |-> k, st |-> AllValue] : k \in {"transport_error", "object"} } }

\* The first run on an empty archive directory, after the summarization step.
InitArchive ==
    /\ env = [api_key |-> TRUE, config_ok |-> TRUE, reddit_creds |-> TRUE]
    /\ config \in ArchiveConfigs
    /\ now = [day |-> 0, late |-> FALSE]
    /\ date = 0
    /\ strays \in SUBSET StrayNames
    /\ pool = IdlePool
    /\ started = [day |-> 0, late |-> FALSE]
    /\ pc = "render"
    /\ src = Len(SourceOrder) + 1
    /\ retry = IdleFrame
    /\ all_articles = SampleArticles
    /\ got = [s \in Sources |-> IF s = "hatena" THEN SampleArticles ELSE <<>>]
    /\ exhausted = {}
    /\ invoked = {"hatena", Summarization}
    /\ summary \in RunSummaries
    /\ api_log = <<>>
    /\ error = "none"
    /\ today_doc = <<>>
    /\ archive = <<>>
    /\ index_doc = <<>>
    /\ retval = "none"
    /\ exit_code = 0 - 1

\* The process is started again; date = datetime.now().
NextRun ==
    /\ pc = "exited"
    /\ pc' = "render"
    /\ date' = now.day
    /\ started' = now
    /\ summary' \in RunSummaries
    /\ error' = "none"
    /\ retval' = "none"
    /\ exit_code' = 0 - 1
    /\ UNCHANGED << env, config, strays, pool, now, src, retry, all_articles, got, exhausted, invoked,
                    api_log, today_doc, archive, index_doc >>

\* The calendar day changes.
Midnight ==
    /\ now.day < MaxDay
    /\ now' = [day |-> now.day + 1, late |-> FALSE]
    /\ UNCHANGED << env, config, strays, pool, started, date, pc, src, retry, all_articles, got, exhausted,
                    invoked, summary, api_log, error, today_doc, archive, index_doc,
                    retval, exit_code >>

NextArchive ==
    \/ GenerateHtml \/ SaveToArchive \/ Cleanup \/ GenerateIndex \/ MainExit
    \/ NextRun \/ Midnight

SpecArchive == InitArchive /\ [][NextArchive]_vars

(***************************************************************************)
(* _create_fallback_summary on its own: short lists of articles of all     *)
(* sources, and lists of one source long enough to pass the link limit.    *)
(***************************************************************************)
MaxShort == 3
MaxLong == 11

FallbackInputs ==
    SeqUpTo(HatenaCatalog \cup HNCatalog \cup RedditCatalog, MaxShort)
    \cup UNION { SeqUpTo(P, MaxLong) : P \in { Q \in SUBSET HNCatalog : Cardinality(Q) = 2 } }

\* summarize_with_ai is about to build the fallback for some article list.
InitFallback ==
    /\ env = [api_key |-> TRUE, config_ok |-> TRUE, reddit_creds |-> TRUE]
    /\ config \in { c \in Configs : \A s \in Sources : c.enabled[s] }
    /\ now = [day |-> 0, late |-> FALSE]
    /\ date = 0
    /\ strays = StrayNames
    /\ pool = IdlePool
    /\ started = [day |-> 0, late |-> FALSE]
    /\ pc = "fallback"
    /\ src = Len(SourceOrder) + 1
    /\ retry = IdleFrame
    /\ all_articles \in FallbackInputs
    /\ got = [s \in Sources |-> <<>>]
    /\ exhausted = {}
    /\ invoked = {}
    /\ summary = <<>>
    /\ api_log = <<>>
    /\ error = "none"
    /\ today_doc = InitialToday
    /\ archive = InitialArchive
    /\ index_doc = InitialIndex
    /\ retval = "none"
    /\ exit_code = 0 - 1

NextFallback == FallbackSummary

SpecFallback == InitFallback /\ [][NextFallback]_vars

(***************************************************************************)
(* HackerNewsFetcher._fetch_story_details on its own: the futures complete *)
(* one at a time, in any order.                                            *)
(***************************************************************************)
MaxStories == 3

\* The items the ids can name: the catalogue and one more story.
HNItems == HNCatalog \cup { Art("hackernews", 14, "K", 2) }

StoryIdLists ==
    UNION { Perms(S) : S \in { T \in SUBSET HNItems : Cardinality(T) <= MaxStories } }

InitHN ==
    /\ env = [api_key |-> TRUE, config_ok |-> TRUE, reddit_creds |-> TRUE]
    /\ config \in { c \in Configs : \A s \in Sources : c.enabled[s] }
    /\ now = [day |-> 0, late |-> FALSE]
    /\ date = 0
    /\ strays = StrayNames
    /\ \E ids \in StoryIdLists :
          \E outcome \in [DOMAIN ids -> {"story", "other", "failed"}] :
             pool = Submitted(ids, outcome)
    /\ started = [day |-> 0, late |-> FALSE]
    /\ pc = "fetch"
    /\ src = 2
    /\ retry = NewFrame("hackernews")
    /\ all_articles = <<>>
    /\ got = [s \in Sources |-> <<>>]
    /\ exhausted = {}
    /\ invoked = {"hackernews"}
    /\ summary = <<>>
    /\ api_log = <<>>
    /\ error = "none"
    /\ today_doc = InitialToday
    /\ archive = InitialArchive
    /\ index_doc = InitialIndex
    /\ retval = "none"
    /\ exit_code = 0 - 1

PoolUnchanged ==
    UNCHANGED << env, config, now, date, strays, started, pc, src, retry, all_articles, got,
                 exhausted, invoked, summary, api_log, error, today_doc, archive,
                 index_doc, retval, exit_code >>

\* One future completes.
HNComplete ==
    /\ pool.phase = "running"
    /\ \E i \in pool.pending : pool' = Completed(pool, i)
    /\ PoolUnchanged

\* All futures are done: sort and return.
HNReturn ==
    /\ pool.phase = "running" /\ pool.pending = {}
    /\ pool' = Returning(pool)
    /\ PoolUnchanged

NextHN == HNComplete \/ HNReturn

SpecHN == InitHN /\ [][NextHN]_vars

(***************************************************************************)
(* Properties                                                              *)
(***************************************************************************)
FetchFinished == src > Len(SourceOrder)
AfterFetch == FetchFinished /\ pc # "fetch"
SummaryReturned == summary # <<>>

FromSource(articles, s) == SelectSeq(articles, LAMBDA a : a.source = s)

RECURSIVE BackoffSum(_)
BackoffSum(k) == IF k = 0 THEN 0 ELSE BackoffSum(k - 1) + 5 * 2 ^ (k - 1)

\* C1: an operation that raises on every call is invoked exactly max_retries
\* (3) times by _retry_operation, which then returns the empty list and does
\* not raise.
C1_RetryExhaustion ==
    /\ retry.calls <= max_retries
    /\ (retry.phase = "returned" /\ retry.fails = retry.calls) =>
          /\ retry.calls = max_retries
          /\ retry.calls = 3
          /\ retry.result = <<>>
          /\ error = "none"

C1_Witness ==
    /\ retry.phase = "returned" /\ retry.fails = retry.calls
    /\ retry.calls = 3 /\ retry.op = "hackernews"

\* C2: when the operation raises on its first k < max_retries calls and
\* succeeds on call k+1, _retry_operation returns that result, makes no
\* further call, and has slept the sum over i in 1..k of
\* retry_delay * 2^(i-1) in total: 0, 5, 15 for k = 0, 1, 2.
C2_RetryEventualSuccess ==
    (retry.phase = "returned" /\ retry.ok) =>
        /\ retry.fails < max_retries
        /\ retry.result = retry.opreturn
        /\ retry.calls = retry.fails + 1
        /\ retry.sleeps = retry.fails
        /\ retry.slept = BackoffSum(retry.fails)
        /\ retry.slept = CASE retry.fails = 0 -> 0
                           [] retry.fails = 1 -> 5
                           [] retry.fails = 2 -> 15

C2_Witness ==
    /\ retry.phase = "returned" /\ retry.ok
    /\ retry.fails = 2 /\ retry.slept = 15 /\ retry.result # <<>>

\* C3: a source whose adapter fails on every attempt does not abort the
\* run: it contributes no article, every enabled source is still invoked,
\* and the combined list holds the articles of the sources that succeeded.
C3_ExhaustedSourceDoesNotAbort ==
    (exhausted # {} /\ pc # "fetch") =>
        /\ FetchFinished
        /\ \A s \in Sources : config.enabled[s] => s \in invoked
        /\ \A s \in exhausted : FromSource(all_articles, s) = <<>>
        /\ \A s \in Sources \ exhausted : FromSource(all_articles, s) = got[s]

C3_Witness ==
    /\ AfterFetch
    /\ exhausted = {"hatena"}
    /\ got["hackernews"] # <<>> /\ got["reddit"] # <<>>
    /\ Len(all_articles) = Len(got["hackernews"]) + Len(got["reddit"])

\* C4 (as claimed): a transient failure inside a source adapter is retried;
\* the wrapper does not return for that source before max_retries attempts
\* have been made.
C4_TransientFailureRetried ==
    (retry.phase = "returned" /\ retry.op \in Sources /\ retry.swallowed) =>
        retry.calls = max_retries

\* C5: the combined list is the concatenation of the results of the enabled
\* sources in the order Hatena, Hacker News, Reddit, each result in its own
\* order; the adapter of a disabled source is never invoked.
Part(s) == IF config.enabled[s] THEN got[s] ELSE <<>>

C5_Concatenation ==
    /\ \A s \in Sources : ~ config.enabled[s] => (s \notin invoked /\ got[s] = <<>>)
    /\ FetchFinished =>
          all_articles = Part("hatena") \o Part("hackernews") \o Part("reddit")
    /\ (pc = "fetch" /\ src <= Len(SourceOrder)) =>
          all_articles = (IF src > 1 THEN Part("hatena") ELSE <<>>)
                         \o (IF src > 2 THEN Part("hackernews") ELSE <<>>)

C5_Witness ==
    /\ AfterFetch
    /\ ~ config.enabled["hackernews"]
    /\ Len(got["hatena"]) = 2 /\ Len(got["reddit"]) = 2
    /\ got["reddit"][1] # got["reddit"][2]
    /\ all_articles = got["hatena"] \o got["reddit"]

\* C6: when the combined list is empty, generate() returns False (exit code
\* 1), the summarizer is never invoked, no today document is written and the
\* archive and its index stay as they were.
C6_NoArticlesIsFatal ==
    (AfterFetch /\ all_articles = <<>>) =>
        /\ pc \in {"done", "exited"}
        /\ retval = "False"
        /\ pc = "exited" => exit_code = 1
        /\ Summarization \notin invoked
        /\ api_log = <<>>
        /\ summary = <<>>
        /\ today_doc = InitialToday
        /\ archive = InitialArchive
        /\ index_doc = InitialIndex

C6_Witness ==
    /\ pc = "exited" /\ exit_code = 1
    /\ FetchFinished /\ all_articles = <<>>
    /\ invoked # {}

\* C7 (as claimed): summarize_with_ai never raises, whatever the service and
\* the construction of the summarizer do, and what it returns is a summary
\* holding every field of the schema.
C7_SummarizationNeverFails ==
    /\ error # "summarize"
    /\ SummaryReturned => DOMAIN summary = Fields

\* A failed attempt of the generation call: a transport error, text that is
\* not JSON, or an object without a required field.
FailedAttempt(api) ==
    \/ api.kind \in {"transport_error", "not_json"}
    \/ api.kind = "object" /\ \E f \in RequiredFields : api.st[f] = "absent"

IsFallback(summary_data) == summary_data = CreateFallbackSummary(all_articles)

\* C8 (as claimed): a generation attempt that ends in a transport error or
\* in malformed output is a failed attempt of the wrapper; the call is made
\* again until it succeeds or max_retries attempts were made, and only then
\* is the fallback substituted.
C8_FailedSummarizationRetried ==
    /\ (retry.phase = "returned" /\ retry.op = Summarization
        /\ api_log # <<>> /\ FailedAttempt(api_log[Len(api_log)])) =>
          retry.calls = max_retries
    /\ (SummaryReturned /\ IsFallback(summary)) =>
          (Len(api_log) = max_retries \/ api_log = <<>>)

\* A response that is no JSON object at all.
Malformed(api) == api.kind \in {"not_json", "scalar", "container"}

SameShape(summary_data) ==
    /\ DOMAIN summary_data = Fields
    /\ \A f \in Fields : summary_data[f].tag = AIValue(f).tag
    /\ \A i \in DOMAIN summary_data["source_summaries"].l :
          DOMAIN summary_data["source_summaries"].l[i]
            = DOMAIN AIValue("source_summaries").l[1]
    /\ \A i \in DOMAIN summary_data["key_topics"].l :
          DOMAIN summary_data["key_topics"].l[i] = DOMAIN AIValue("key_topics").l[1]

\* C9: when every response of the generation service is malformed, the
\* summary summarize_with_ai returns has title, overall_summary,
\* source_summaries, key_topics and total_articles present and non-null, in
\* the shape of a successful response, and total_articles is the number of
\* input articles.
C9_FallbackConformance ==
    (SummaryReturned /\ api_log # <<>>
     /\ \A i \in DOMAIN api_log : Malformed(api_log[i])) =>
        /\ SameShape(summary)
        /\ \A f \in Fields : summary[f].tag # "null"
        /\ summary["total_articles"].n = Len(all_articles)
        /\ summary["overall_summary"].n = Len(all_articles)

C9_Witness ==
    /\ SummaryReturned /\ Len(api_log) = 1 /\ api_log[1].kind = "not_json"
    /\ Len(all_articles) = 4
    /\ Len(summary["source_summaries"].l) = 2
    /\ summary["total_articles"].n = 4

\* C10 (as claimed): every summary that leaves the summarization step has
\* title, overall_summary, source_summaries, key_topics and total_articles
\* present and none of them null.
C10_SummaryFullyPopulated ==
    SummaryReturned =>
        \A f \in Fields : f \in DOMAIN summary /\ summary[f].tag # "null"

\* C16: when the generation-service credential is absent or the
\* configuration cannot be loaded, the process can only exit, with code 1,
\* and in that run no source adapter and no generation call has been made
\* and the today document, the archive and the index are as they were.
C16_StartupFailureIsFatal ==
    (~ env.api_key \/ ~ env.config_ok) =>
        /\ pc \in {"main", "exited"}
        /\ pc = "exited" => exit_code = 1
        /\ invoked = {}
        /\ api_log = <<>>
        /\ today_doc = InitialToday
        /\ archive = InitialArchive
        /\ index_doc = InitialIndex

C16_Witness ==
    /\ pc = "exited"
    /\ ~ env.api_key
    /\ env.config_ok
    /\ exit_code = 1

NoRepeatedUrl(articles) ==
    \A i, j \in DOMAIN articles : i # j => articles[i].url # articles[j].url

\* C18: the list each source (Hatena, Hacker News, Reddit) contributes to
\* the combined list holds no two articles with the same url.
C18_PerSourceDeduplication ==
    \A s \in Sources : NoRepeatedUrl(got[s])

Unavailable(api) == api.kind = "transport_error"
DiskWriteFailed == error \in {"write", "archive"}

\* C19: when the enabled sources together returned n >= 1 articles and every
\* call of the summarization service failed as unavailable, then (no disk
\* write having failed) the run ends with the fallback summary whose article
\* count is n and whose groups cover the n articles, index.html is the
\* document rendered from it for the run date, the archive holds that
\* document under the run date, and the process exits 0.
C19_DegradedModeEndToEnd ==
    (/\ pc = "exited"
     /\ Len(all_articles) >= 1
     /\ api_log # <<>>
     /\ \A i \in DOMAIN api_log : Unavailable(api_log[i])
     /\ ~ DiskWriteFailed) =>
        /\ exit_code = 0
        /\ IsFallback(summary)
        /\ summary["total_articles"].n = Len(all_articles)
        /\ summary["overall_summary"].n = Len(all_articles)
        /\ today_doc = << Doc(date, summary) >>
        /\ date \in DOMAIN archive
        /\ archive[date] = Doc(date, summary)

C19_Witness ==
    /\ pc = "exited"
    /\ exit_code = 0
    /\ \A s \in Sources : Len(got[s]) = 2
    /\ Len(all_articles) = 6
    /\ Len(api_log) = 1 /\ Unavailable(api_log[1])
    /\ summary["total_articles"].n = 6
    /\ Len(summary["source_summaries"].l) = 3
    /\ date \in DOMAIN archive

Interrupted == error = "interrupt"

\* Articles were fetched, a summary was produced, index.html is the document
\* rendered from it, the archive holds that document under the run date and
\* archive.html lists the archive as it is.
AllStagesDone ==
    /\ all_articles # <<>>
    /\ SummaryReturned
    /\ today_doc = << Doc(date, summary) >>
    /\ date \in DOMAIN archive
    /\ archive[date] = Doc(date, summary)
    /\ index_doc = << GetArchiveList(archive) >>

\* C15: the process exits with 0 or 1; with 0 exactly when articles were
\* fetched, a summary was produced, the document was rendered and the
\* archive was updated (and the run was not interrupted); with 1 when no
\* article was fetched, when the credential is absent, when an error reached
\* generate() or main() in any stage, and when the run was interrupted.
C15_ExitContract ==
    pc = "exited" =>
        /\ exit_code \in {0, 1}
        /\ exit_code = 0 <=> (AllStagesDone /\ ~ Interrupted)
        /\ (all_articles = <<>> \/ ~ env.api_key \/ error # "none") => exit_code = 1

C15_Witness ==
    /\ pc = "exited"
    /\ Interrupted
    /\ exit_code = 1
    /\ AllStagesDone

\* C17 (as claimed): when a Reddit credential is absent, the Reddit adapter
\* is not invoked, even if Reddit is enabled, and contributes nothing.
C17_RedditSkippedWithoutCredentials ==
    ~ env.reddit_creds =>
        /\ "reddit" \notin invoked
        /\ got["reddit"] = <<>>

\* Time in half days: the midnight that starts a day, and the clock, which
\* is past that midnight iff late.
MidnightOf(day) == 2 * day
ClockTime == 2 * now.day + (IF now.late THEN 1 ELSE 0)

RunSucceeded == retval = "True"

TodayAndArchiveEntry ==
    /\ today_doc = << Doc(date, summary) >>
    /\ date \in DOMAIN archive
    /\ archive[date] = Doc(date, summary)

\* C11 (as claimed): whatever keep_days and generate_index are, a run that
\* returned success has left index.html rendered for the run date and, in
\* the archive, the entry of the run date.
C11_SuccessLeavesTodayAndEntry ==
    RunSucceeded => TodayAndArchiveEntry

\* C11 (amended): the same, for the runs whose cleanup read the clock no
\* more than keep_days days after the midnight that starts the run date
\* (always so when keep_days >= 1 and the run stays within the run date's
\* calendar day).
C11_SuccessLeavesTodayAndEntryWithinRetention ==
    (RunSucceeded /\ ClockTime - MidnightOf(date) <= 2 * config.keep_days) =>
        TodayAndArchiveEntry

C11_Witness ==
    /\ pc = "exited"
    /\ exit_code = 0
    /\ config.keep_days = 1
    /\ ~ config.generate_index
    /\ now.late
    /\ now.day = date
    /\ date > 0
    /\ TodayAndArchiveEntry

SaveStep == pc = "save" /\ pc' = "cleanup"

Listed(day) == index_doc # <<>> /\ \E i \in DOMAIN index_doc[1] : index_doc[1][i] = day

\* C12: over any sequence of runs the archive holds, under each date, one
\* entry, the document of that date; a save for a date that has an entry
\* replaces it by the document just saved and leaves the entries of the
\* other dates as they are, and no other step changes an entry's content.
C12_OneEntryPerDateLastSaveWins ==
    [][ /\ \A d \in DOMAIN archive' : archive'[d].date = d
        /\ \A d \in DOMAIN archive \cap DOMAIN archive' :
              archive'[d] # archive[d] => (SaveStep /\ d = date)
        /\ SaveStep =>
              /\ DOMAIN archive' = DOMAIN archive \cup {date}
              /\ archive'[date] = today_doc[1] ]_vars

\* The entry of the run date was there at the end of an earlier run, another
\* date has an entry too, and this run has saved its document over it.
C12_Witness ==
    /\ pc = "cleanup"
    /\ Listed(date)
    /\ archive[date] = today_doc[1]
    /\ today_doc[1] = Doc(date, summary)
    /\ \E d \in DOMAIN archive : d # date

CleanupStep == pc = "cleanup" /\ pc' = "index"

\* The example: entries of 200 and 10 days ago, keep_days = 90.
RetentionExample ==
    LET files == [d \in {0 - 200, 0 - 10} |-> OldDoc(d)] IN
    \A late \in BOOLEAN : DOMAIN CleanupOldArchives(files, 0, late, 90) = {0 - 10}

InputOf(source) == { j \in DOMAIN all_articles : all_articles[j].source = source }

\* How many articles of the same source come before article j: those with a
\* higher score, and those with the same score that stand earlier in the
\* input.
Rank(j) ==
    Cardinality({ i \in InputOf(all_articles[j].source) :
                    \/ all_articles[i].score > all_articles[j].score
                    \/ all_articles[i].score = all_articles[j].score /\ i < j })

RECURSIVE SumOfCounts(_)
SumOfCounts(groups) ==
    IF groups = <<>> THEN 0 ELSE Head(groups).article_count + SumOfCounts(Tail(groups))

FallbackBuilt == pc = "render" /\ summary # <<>>

\* C20: the fallback has one group per distinct source of the input; a
\* group's article_count is the number of input articles of its source and
\* the counts add up to the input size; a group's links are its source's
\* articles of highest score, at most 10, by non-increasing score, and in
\* input order where scores tie.
C20_FallbackContent ==
    FallbackBuilt =>
        LET groups == summary["source_summaries"].l IN
        /\ { groups[g].source : g \in DOMAIN groups }
              = { all_articles[j].source : j \in DOMAIN all_articles }
        /\ \A g, h \in DOMAIN groups : g # h => groups[g].source # groups[h].source
        /\ SumOfCounts(groups) = Len(all_articles)
        /\ \A g \in DOMAIN groups :
              LET mine == InputOf(groups[g].source)
                  links == groups[g].summary.links
              IN  /\ groups[g].article_count = Cardinality(mine)
                  /\ Len(links) = IF Cardinality(mine) < 10 THEN Cardinality(mine) ELSE 10
                  /\ \A k \in DOMAIN links :
                        \E j \in mine :
                           /\ Rank(j) = k - 1
                           /\ links[k] = << all_articles[j].title, all_articles[j].url >>

\* Eleven articles of one source, two titles with the same score among them:
\* ten links, the count is eleven.
C20_Witness ==
    /\ FallbackBuilt
    /\ Len(all_articles) = 11
    /\ { all_articles[j].title : j \in DOMAIN all_articles } = {"D", "E"}
    /\ all_articles[1].title = "E"
    /\ Len(summary["source_summaries"].l) = 1
    /\ summary["source_summaries"].l[1].article_count = 11
    /\ Len(summary["source_summaries"].l[1].summary.links) = 10

\* C21 (as claimed): building the document raises for no summary that
\* summarize_with_ai returns.
C21_RenderingNeverRaises ==
    /\ error # "render"
    /\ (SummaryReturned /\ pc = "render") => CanRender(summary)

IndexStep == pc = "index" /\ pc' = "done"

RECURSIVE DaysOnPage(_)
DaysOnPage(sections) ==
    IF sections = <<>> THEN <<>> ELSE Head(sections).days \o DaysOnPage(Tail(sections))

\* archive.html lists exactly the entries of the archive, each once, in
\* sections of one month each, the most recent month first and, inside a
\* section, the most recent date first.
IndexReflectsArchive ==
    /\ index_doc # <<>>
    /\ LET sections == BuildArchiveHtml(index_doc[1])
           page == DaysOnPage(sections)
       IN  /\ { page[i] : i \in DOMAIN page } = DOMAIN archive
           /\ Len(page) = Cardinality(DOMAIN archive)
           /\ \A g \in DOMAIN sections :
                 /\ sections[g].days # <<>>
                 /\ \A i \in DOMAIN sections[g].days :
                       MonthKey(sections[g].days[i]) = sections[g].month
                 /\ \A i, j \in DOMAIN sections[g].days :
                       i < j => sections[g].days[i] > sections[g].days[j]
           /\ \A g, h \in DOMAIN sections : g < h => sections[g].month > sections[h].month

\* C23 (as claimed): after every run that has created its archive entry the
\* index lists exactly the entries that remain after cleanup, by month.
C23_IndexReflectsArchive ==
    RunSucceeded => IndexReflectsArchive

\* C23 (amended): the same after every successful run whose configuration has
\* generate_index set; the entry just saved is on the page whenever the
\* cleanup kept it.
C23_IndexReflectsArchiveWhenConfigured ==
    (RunSucceeded /\ config.generate_index) =>
        /\ IndexReflectsArchive
        /\ (ClockTime - MidnightOf(date) <= 2 * config.keep_days) => Listed(date)

\* Three entries of two months are on the page after a run whose cleanup
\* removed an entry.
C23_Witness ==
    /\ RunSucceeded /\ config.generate_index
    /\ pc = "exited"
    /\ Len(index_doc[1]) = 3
    /\ Len(BuildArchiveHtml(index_doc[1])) = 2
    /\ 0 \notin DOMAIN archive

\* The stages that may directly follow a stage; the fallback belongs to the
\* summarize stage, and "done" is generate() returning.
Successors(stage) ==
    CASE stage = "main" -> {"fetch", "exited"}
      [] stage = "fetch" -> {"summarize", "done"}
      [] stage = "summarize" -> {"fallback", "render"}
      [] stage = "fallback" -> {"render", "done"}
      [] stage = "render" -> {"save", "done"}
      [] stage = "save" -> {"cleanup", "done"}
      [] stage = "cleanup" -> {"index", "done"}
      [] stage = "index" -> {"done"}
      [] stage = "done" -> {"exited"}
      [] stage = "exited" -> {}

Rendered == today_doc = << Doc(date, summary) >>

\* C24: the stages follow one another in the order fetch, summarize, render,
\* save, cleanup, index; the sources are taken one at a time in their
\* order, a source's wrapper call being over before the next source is
\* looked at; the summary is produced only after the last source, index.html
\* only from a returned summary, and the archive directory and archive.html
\* change only after index.html has been rendered.
C24_StageOrdering ==
    [][ /\ pc' # pc => pc' \in Successors(pc)
        /\ src' # src =>
              /\ pc = "fetch" /\ src' = src + 1
              /\ retry'.phase = "idle"
        /\ retry'.phase # "idle" =>
              retry'.op = IF pc' = "fetch" THEN SourceOrder[src'] ELSE Summarization
        /\ \A s \in Sources :
              (got'[s] # got[s] \/ (s \in invoked' /\ s \notin invoked)) =>
                  pc = "fetch" /\ src <= Len(SourceOrder) /\ s = SourceOrder[src]
        /\ ((Summarization \in invoked' /\ Summarization \notin invoked)
            \/ summary' # summary) =>
              pc \in {"summarize", "fallback"} /\ FetchFinished
        /\ today_doc' # today_doc => pc = "render" /\ SummaryReturned
        /\ archive' # archive => pc \in {"save", "cleanup"} /\ Rendered
        /\ index_doc' # index_doc => pc = "index" /\ Rendered ]_vars

\* A whole run: the first source used up its three attempts, the other two
\* answered, and every later stage has run.
C24_Witness ==
    /\ pc = "exited" /\ exit_code = 0
    /\ exhausted = {"hatena"}
    /\ got["hackernews"] # <<>> /\ got["reddit"] # <<>>
    /\ Rendered
    /\ index_doc # InitialIndex
    /\ 0 - 200 \notin DOMAIN archive

\* The stories _fetch_single_story hands back for the submitted items.
FetchedStories(p) == { p.ids[i] : i \in { j \in DOMAIN p.ids : p.outcome[j] = "story" } }

NonIncreasingScore(seq) ==
    \A i, j \in DOMAIN seq : i < j => seq[i].score >= seq[j].score

RECURSIVE CompletedInOrder(_, _)
CompletedInOrder(p, order) ==
    IF order = <<>> THEN p
    ELSE CompletedInOrder(Completed(p, Head(order)), Tail(order))

\* What the call returns when the futures complete in the given order.
ResultFor(p, order) ==
    Returning(CompletedInOrder(Submitted(p.ids, p.outcome), order)).result

\* C26: with the same identifiers and the same per-item responses the list
\* returned is the same, position by position, for every completion order.
C26_ParallelFetchDeterminism ==
    pool.phase = "returned" =>
        \A order \in Perms(DOMAIN pool.ids) : pool.result = ResultFor(pool, order)

\* A pass through the wrapper's loop in which operation() returned.
OperationReturned == retry.phase = "running" /\ retry' # retry /\ retry'.ok

\* C27: when the operation returns without raising, the wrapper returns that
\* value at once, whatever it is: no sleep, no further attempt.  An adapter
\* that hands back the empty list on the first attempt makes the wrapper
\* return the empty list after exactly one call.
C27_ReturnIsSuccess ==
    [][ OperationReturned =>
          /\ retry'.phase = "returned"
          /\ retry'.result = retry'.opreturn
          /\ retry'.calls = retry.calls + 1
          /\ retry'.sleeps = retry.sleeps /\ retry'.slept = retry.slept
          /\ retry'.attempt = retry.attempt
          /\ retry.attempt = 1 => retry'.calls = 1 /\ retry'.sleeps = 0 ]_vars

\* The Hacker News adapter swallowed a request error and returned the empty
\* list on the first attempt; the wrapper has returned it.
C27_Witness ==
    /\ retry.phase = "returned" /\ retry.op = "hackernews"
    /\ retry.ok /\ retry.swallowed
    /\ retry.opreturn = <<>> /\ retry.result = <<>>
    /\ retry.calls = 1 /\ retry.sleeps = 0

\* A pass through the wrapper's loop in which operation() raised.
OperationRaised == retry.phase = "running" /\ retry' # retry /\ ~ retry'.ok

\* C28: a failure of attempt 1 .. max_retries - 1 is followed by one sleep of
\* retry_delay * 2^(attempt - 1); the failure of attempt max_retries is
\* followed by none: the wrapper returns at once, having slept
\* max_retries - 1 times, retry_delay * (2^(max_retries - 1) - 1) = 15 units.
C28_NoBackoffAfterLastAttempt ==
    [][ OperationRaised =>
          IF retry.attempt < max_retries
          THEN /\ retry'.phase = "running"
               /\ retry'.sleeps = retry.sleeps + 1
               /\ retry'.slept = retry.slept + retry_delay * 2 ^ (retry.attempt - 1)
               /\ retry'.sleeps = retry.attempt
          ELSE /\ retry'.phase = "returned"
               /\ retry'.calls = max_retries
               /\ retry'.sleeps = retry.sleeps /\ retry'.slept = retry.slept
               /\ retry'.sleeps = max_retries - 1
               /\ retry'.slept = retry_delay * (2 ^ (max_retries - 1) - 1)
               /\ retry'.slept = 15 ]_vars

\* The summarization wrapper has returned after its operation raised on
\* every call.
C28_Witness ==
    /\ retry.phase = "returned" /\ retry.op = Summarization
    /\ ~ retry.ok /\ retry.fails = max_retries
    /\ retry.sleeps = 2 /\ retry.slept = 15

\* The clock reading generate() took for the run date, in half days (a
\* reading past midnight counted as midday), and the time the run has lasted
\* when the clock is read again.
StartTime == 2 * started.day + (IF started.late THEN 1 ELSE 0)
RunLength == ClockTime - StartTime

GenerateReturned == retval \in {"True", "False"}

\* _retry_operation is entered.
WrapperCall == retry.phase = "idle" /\ retry'.phase = "running"

\* C30: generate(), once entered, returns True or False.  Up to then a
\* wrapper call makes at most max_retries attempts and max_retries - 1
\* sleeps, the wrapper is entered at most once per operation (each enabled
\* source, the summarization), and never for a source that is not enabled:
\* at most max_retries attempts per operation and at most
\* (max_retries - 1) * (number of sources + 1) sleeps in a run.
C30_RunTerminates ==
    /\ (pc = "fetch") ~> GenerateReturned
    /\ [](/\ retry.calls <= max_retries
          /\ retry.sleeps <= max_retries - 1
          /\ \A s \in invoked \cap Sources : config.enabled[s])
    /\ [][ /\ WrapperCall => retry'.op \notin invoked
           /\ invoked' # invoked => retry.phase = "running" /\ invoked' = invoked \cup {retry.op}
           /\ GenerateReturned => retry' = retry /\ retval' = retval ]_vars

\* generate() has returned True after two sources and the summarization
\* each used up their attempts.
C30_Witness ==
    /\ pc = "done" /\ retval = "True"
    /\ exhausted = {"hatena", "hackernews"}
    /\ invoked = Sources \cup {Summarization}
    /\ api_log = <<>>
    /\ summary = CreateFallbackSummary(all_articles)

=============================================================================
